---- MODULE Spec2Model ----
(***************************************************************************)
(* Model of tensorlayer/layers: the deformable-convolution sampling        *)
(* pipeline of convolution.py (grid construction, coordinate clipping,     *)
(* bilinear sampling, layout transposes) and the all_layers / all_params / *)
(* all_drop bookkeeping every layer constructor performs.                  *)
(*                                                                         *)
(* Float coordinates are exact rationals with denominator Q, held as the   *)
(* integer numerator; sampled values are numerators over Q*Q.              *)
(***************************************************************************)
EXTENDS Integers, Sequences, FiniteSets, TLC

VARIABLES
    \* ---- numeric pipeline (one forward evaluation of DeformableConv2dLayer)
    pc,            \* "start" -> "grid" -> "done" -> "out"
    dims,          \* [B, H, W, C, kh, kw] static shapes of inputs and kernel
    inputs,        \* feature map, (b, i, j, c) -> value
    offset,        \* offset_layer.outputs, (b, i, j, ch) -> numerator, ch < 2*kh*kw
    base_grid,     \* grid before the tap offsets are added, (i, j) -> <<row, col>>
    grid_offset,   \* (i, j, k) -> <<row, col>> numerators
    inputs_bc,     \* feature slices handed to tf_batch_map_coordinates, (n, i, j) -> value
    coords,        \* coordinates handed to tf_batch_map_coordinates, (n, i, j, k) -> <<row, col>>
    corners,       \* coords_lt, coords_rb, coords_lb, coords_rt of tf_batch_map_coordinates
    mapped_vals,   \* result of tf_batch_map_coordinates, (n, i, j, k) -> numerator over Q*Q
    input_deform,  \* result of tf_batch_map_offsets, (b, i, j, k, c) -> numerator over Q*Q
    contraction    \* static shapes of W, of the conv3d result and of self.outputs

numvars == <<pc, dims, inputs, offset, base_grid, grid_offset, inputs_bc, coords, corners,
             mapped_vals, input_deform, contraction>>

VARIABLES
    \* ---- graph construction (the layer constructors' bookkeeping)
    tf_version,    \* tf.__version__, a string held as its sequence of character codes
    layers,        \* the Layer objects constructed so far, in construction order
    lists,         \* heap of Python list objects; a layer holds references (indices) into it
    dicts,         \* heap of Python dict objects (all_drop maps), key -> value, 0 = key absent
    nvar,          \* number of tf variables created so far (variables are 1..nvar)
    ntensor,       \* number of output tensors created so far
    last           \* the most recent constructor call: its arguments and what it did

layervars == <<tf_version, layers, lists, dicts, nvar, ntensor, last>>

VARIABLES
    \* ---- advanced_indexing_op (one evaluation)
    seq_input,     \* input, (b, t, f) -> value, of shape [batch_size, max_length, dim_size]
    seq_shape,     \* <<batch_size, max_length, dim_size>>
    index,         \* the index argument (sequence lengths), b -> length
    relevant,      \* what the op returned: <<>> before the call
    \* ---- retrieve_seq_length_op (one evaluation)
    data,          \* data, (b, t, f) -> value, of shape [batch_size, n_step, n_features]
    data_shape,    \* <<batch_size, n_step, n_features>>
    length         \* the returned lengths, b -> length: <<>> before the call

idxvars == <<seq_input, seq_shape, index, relevant, data, data_shape, length>>

vars == <<numvars, layervars, idxvars>>

Empty == <<>>

NumIdle ==
    /\ pc = "idle"
    /\ dims = [B |-> 1, H |-> 1, W |-> 1, C |-> 1, kh |-> 1, kw |-> 1]
    /\ inputs = Empty
    /\ offset = Empty
    /\ base_grid = Empty
    /\ grid_offset = Empty
    /\ inputs_bc = Empty
    /\ coords = Empty
    /\ corners = Empty
    /\ mapped_vals = Empty
    /\ input_deform = Empty
    /\ contraction = Empty

IdxIdle ==
    /\ seq_input = Empty
    /\ seq_shape = <<1, 1, 1>>
    /\ index = Empty
    /\ relevant = Empty
    /\ data = Empty
    /\ data_shape = <<1, 1, 1>>
    /\ length = Empty

----------------------------------------------------------------------------
(* Bounds *)

Q == 4            \* denominator of the modelled float coordinates
MaxLayers == 3    \* layers constructed in one graph
MaxDim == 3       \* every static dimension (batch, height, width, channels, kh, kw) is in 1..MaxDim
MaxElems == 16    \* batch*channels*height*width*taps of one evaluation

----------------------------------------------------------------------------
(* Arithmetic helpers *)

Min(a, b) == IF a < b THEN a ELSE b
Max(a, b) == IF a > b THEN a ELSE b

\* tf.floor / tf.ceil followed by a cast to int32, on a numerator over Q
floor(x) == x \div Q
ceil(x) == -((-x) \div Q)

\* (mutant) the upper bound is not applied
clip_by_value_lower_only(x, lo, hi) == Max(x, lo)

\* tf.clip_by_value(t, lo, hi)
clip_by_value(x, lo, hi) == Min(Max(x, lo), hi)

----------------------------------------------------------------------------
(* Grid initialisation, DeformableConv2dLayer.__init__ *)

\* (mutant) the centre of an even footprint is rounded up
KernelCentreRoundedUp(k) == k \div 2

\* int((k - 1) / 2.0)
KernelCentre(k) == (k - 1) \div 2

\* tf.range(start, limit, 1): start, start + 1, ... below limit
range(start, limit) ==
    [n \in 1..(IF limit > start THEN limit - start ELSE 0) |-> start + n - 1]

\* tf.stack(tf.meshgrid(range(kh), range(kw), indexing='ij')): stacked on a NEW
\* LEADING axis, shape (2, kh, kw); this is its row-major flattening
StackedMeshgrid(kh, kw) ==
    [idx \in 0..(2 * kh * kw - 1) |->
        IF idx < kh * kw THEN idx \div kw ELSE (idx - kh * kw) % kw]

\* tf.reshape(initial_offsets, (-1, 2)): consecutive pairs of the flattening
initial_offsets(kh, kw) ==
    LET flat == StackedMeshgrid(kh, kw)
    IN  [k \in 0..(kh * kw - 1) |-> <<flat[2 * k], flat[2 * k + 1]>>]

\* tf.meshgrid(range(-c_h, H - c_h), range(-c_w, W - c_w), indexing='ij') stacked on axis -1
grid(H, W, kh, kw) ==
    LET rows == range(0 - KernelCentre(kh), H - KernelCentre(kh))
        cols == range(0 - KernelCentre(kw), W - KernelCentre(kw))
    IN  [p \in (0..(Len(rows) - 1)) \X (0..(Len(cols) - 1)) |->
            <<rows[p[1] + 1], cols[p[2] + 1]>>]

\* grid_offset = grid + initial_offsets, cast to float32
GridOffset(H, W, kh, kw) ==
    LET g == grid(H, W, kh, kw)
        io == initial_offsets(kh, kw)
    IN  [p \in (0..(H - 1)) \X (0..(W - 1)) \X (0..(kh * kw - 1)) |->
            << (g[<<p[1], p[2]>>][1] + io[p[3]][1]) * Q,
               (g[<<p[1], p[2]>>][2] + io[p[3]][2]) * Q >>]

----------------------------------------------------------------------------
(* Layout adapters *)

Front(sq) == SubSeq(sq, 1, Len(sq) - 1)
Last(sq) == sq[Len(sq)]

\* the index tuples (0-based) of a tensor of the given shape
RECURSIVE IndexSet(_)
IndexSet(shape) ==
    IF shape = <<>> THEN {<<>>}
    ELSE {Append(t, i) : t \in IndexSet(Front(shape)), i \in 0..(Last(shape) - 1)}

\* position of an index tuple in the row-major order of a shape, and its inverse
RECURSIVE Linear(_, _)
Linear(idx, shape) ==
    IF shape = <<>> THEN 0
    ELSE Linear(Front(idx), Front(shape)) * Last(shape) + Last(idx)

RECURSIVE Unlinear(_, _)
Unlinear(m, shape) ==
    IF shape = <<>> THEN <<>>
    ELSE Append(Unlinear(m \div Last(shape), Front(shape)), m % Last(shape))

RECURSIVE Product(_)
Product(shape) == IF shape = <<>> THEN 1 ELSE Head(shape) * Product(Tail(shape))

\* tf.transpose(x, perm) of x with the given shape (perm is 1-based here):
\* axis a of the result is axis perm[a] of x
tf_transpose(x, shape, perm) ==
    LET out_shape == [a \in 1..Len(perm) |-> shape[perm[a]]]
    IN  [q \in IndexSet(out_shape) |->
            x[[a \in 1..Len(shape) |-> q[CHOOSE o \in 1..Len(perm) : perm[o] = a]]]]

\* tf.reshape(x, target): the elements in row-major order under the new shape; a
\* leading -1 of target stands for whatever extent keeps the element count
tf_reshape(x, shape, target) ==
    LET new_shape == IF target[1] = -1
                     THEN <<Product(shape) \div Product(Tail(target))>> \o Tail(target)
                     ELSE target
    IN  [q \in IndexSet(new_shape) |-> x[Unlinear(Linear(q, new_shape), shape)]]

\* (mutant) the channel axis is not moved before flattening
to_bc_h_w_flattened(x, B, H, W, C) == tf_reshape(x, <<B, H, W, C>>, <<-1, H, W>>)

\* _to_bc_h_w: x = tf.transpose(x, [0, 3, 1, 2]); x = tf.reshape(x, (-1, h, w))
to_bc_h_w(x, B, H, W, C) ==
    tf_reshape(tf_transpose(x, <<B, H, W, C>>, <<1, 4, 2, 3>>), <<B, C, H, W>>, <<-1, H, W>>)

\* _to_b_h_w_n_c: x = tf.reshape(x, (-1, c, h, w, n)); x = tf.transpose(x, [0, 2, 3, 4, 1])
to_b_h_w_n_c(x, B, H, W, K, C) ==
    tf_transpose(tf_reshape(x, <<B * C, H, W, K>>, <<-1, C, H, W, K>>),
                 <<B, C, H, W, K>>, <<1, 3, 4, 5, 2>>)

\* (mutant) the range is tiled as a whole instead of repeated element by element
tf_repeat_tiled(N, repeats) == [m \in 0..(N * repeats - 1) |-> m % N]

\* tf_repeat(a, repeats) for a = tf.range(N): each element repeated `repeats` times in place
tf_repeat(N, repeats) == [m \in 0..(N * repeats - 1) |-> m \div repeats]

----------------------------------------------------------------------------
(* Bilinear sampler, tf_batch_map_coordinates *)

\* _get_vals_by_coords(inputs, coords, idx, out_shape): gather of the flattened
\* (N, H, W) tensor at linear index idx*H*W + row*W + col, reshaped to (N, H, W, K);
\* a linear index outside the flattened tensor gathers 0 (clipped coordinates give none)
get_vals_by_coords(inp, crd, idx, N, H, W, K) ==
    LET flat == [m \in 0..(N * H * W - 1) |->
                    inp[<<m \div (H * W), (m \div W) % H, m % W>>]]
        at(m) == IF m \in DOMAIN flat THEN flat[m] ELSE 0
    IN  [p \in (0..(N - 1)) \X (0..(H - 1)) \X (0..(W - 1)) \X (0..(K - 1)) |->
            at(idx[((p[1] * H + p[2]) * W + p[3]) * K + p[4]] * H * W
               + crd[p][1] * W + crd[p][2])]

\* the four corner index tensors
coords_lt(crd) == [p \in DOMAIN crd |-> <<floor(crd[p][1]), floor(crd[p][2])>>]
coords_rb(crd) == [p \in DOMAIN crd |-> <<ceil(crd[p][1]), ceil(crd[p][2])>>]
\* (mutant) lb takes the ceiling on the row axis and the floor on the column axis
coords_lb_row_ceil(crd) == [p \in DOMAIN crd |-> <<ceil(crd[p][1]), floor(crd[p][2])>>]

coords_lb(crd) == [p \in DOMAIN crd |-> <<coords_lt(crd)[p][1], coords_rb(crd)[p][2]>>]

\* (mutant) rt takes the floor on the first axis and the ceiling on the second
coords_rt_col_ceil(crd) == [p \in DOMAIN crd |-> <<floor(crd[p][1]), ceil(crd[p][2])>>]

coords_rt(crd) == [p \in DOMAIN crd |-> <<coords_rb(crd)[p][1], coords_lt(crd)[p][2]>>]

\* one blend step v0 + (v1 - v0) * frac; v0, v1 over `den`, frac over Q, result over den*Q
Blend(v0, v1, frac) == Q * v0 + (v1 - v0) * frac

tf_batch_map_coordinates(inp, crd, N, H, W, K) ==
    LET idx == tf_repeat(N, H * W * K)
        vals_lt == get_vals_by_coords(inp, coords_lt(crd), idx, N, H, W, K)
        vals_rb == get_vals_by_coords(inp, coords_rb(crd), idx, N, H, W, K)
        vals_lb == get_vals_by_coords(inp, coords_lb(crd), idx, N, H, W, K)
        vals_rt == get_vals_by_coords(inp, coords_rt(crd), idx, N, H, W, K)
    IN  [p \in DOMAIN crd |->
            LET off0 == crd[p][1] - Q * floor(crd[p][1])
                off1 == crd[p][2] - Q * floor(crd[p][2])
                vals_t == Blend(vals_lt[p], vals_rt[p], off0)
                vals_b == Blend(vals_lb[p], vals_rb[p], off0)
            IN  Blend(vals_t, vals_b, off1)]

----------------------------------------------------------------------------
(* Coordinate resolver, tf_batch_map_offsets *)

\* tf.reshape(offsets, (b, h, w, n, 2)): channel 2k + a becomes (tap k, axis a)
ReshapeOffsets(offs, B, H, W, K) ==
    [p \in (0..(B - 1)) \X (0..(H - 1)) \X (0..(W - 1)) \X (0..(K - 1)) |->
        << offs[<<p[1], p[2], p[3], 2 * p[4]>>], offs[<<p[1], p[2], p[3], 2 * p[4] + 1>>] >>]

\* (mutant) a joint clip: both axes clipped to the row bound
ClippedCoordsJoint(offs, gofs, B, H, W, K) ==
    LET o == ReshapeOffsets(offs, B, H, W, K)
    IN  [p \in (0..(B - 1)) \X (0..(H - 1)) \X (0..(W - 1)) \X (0..(K - 1)) |->
            << clip_by_value(gofs[<<p[2], p[3], p[4]>>][1] + o[p][1], 0, (H - 1) * Q),
               clip_by_value(gofs[<<p[2], p[3], p[4]>>][2] + o[p][2], 0, (H - 1) * Q) >>]

\* grid_offset tiled over the batch, plus offsets, each axis clipped to its own bound
ClippedCoords(offs, gofs, B, H, W, K) ==
    LET o == ReshapeOffsets(offs, B, H, W, K)
    IN  [p \in (0..(B - 1)) \X (0..(H - 1)) \X (0..(W - 1)) \X (0..(K - 1)) |->
            << clip_by_value(gofs[<<p[2], p[3], p[4]>>][1] + o[p][1], 0, (H - 1) * Q),
               clip_by_value(gofs[<<p[2], p[3], p[4]>>][2] + o[p][2], 0, (W - 1) * Q) >>]

\* tf.tile(coords, [channel, 1, 1, 1, 1]): the whole batch repeated `channel` times
TileCoords(crd, B, H, W, K, C) ==
    [p \in (0..(B * C - 1)) \X (0..(H - 1)) \X (0..(W - 1)) \X (0..(K - 1)) |->
        crd[<<p[1] % B, p[2], p[3], p[4]>>]]

----------------------------------------------------------------------------
(* Python lists and dicts held by reference *)

Range(f) == {f[x] : x \in DOMAIN f}

\* (mutant) the constructor keeps the upstream's own list object
SameRef(hp, r) == r

\* list(x) / dict(x): the reference of the copy, a new object at the end of the heap
CopyRef(hp, r) == Len(hp) + 1

\* the heap after list(x) / dict(x)
CopyObj(hp, r) == Append(hp, hp[r])

\* (mutant) the new items are put in front of the list
ExtendFront(hp, r, items) == [hp EXCEPT ![r] = items \o @]

\* x.extend(items), in place on the list object r
Extend(hp, r, items) == [hp EXCEPT ![r] = @ \o items]

DropKeys == {"keep_a", "keep_b"}
EmptyDict == [k \in DropKeys |-> 0]

\* d.update(e), in place on the dict object r
Update(hp, r, e) == [hp EXCEPT ![r] = [k \in DropKeys |-> IF e[k] # 0 THEN e[k] ELSE @[k]]]

\* (mutant) nothing is filtered out
KeepAll(xs, ys) == xs

RECURSIVE NotIn(_, _)
\* [x for x in xs if x not in ys]
NotIn(xs, ys) ==
    IF xs = <<>> THEN <<>>
    ELSE (IF Head(xs) \in Range(ys) THEN <<>> ELSE <<Head(xs)>>) \o NotIn(Tail(xs), ys)

RECURSIVE RemoveRepeatInto(_, _)
RemoveRepeatInto(l2, l) ==
    IF l = <<>> THEN l2
    ELSE RemoveRepeatInto(IF Head(l) \in Range(l2) THEN l2 ELSE Append(l2, Head(l)), Tail(l))

\* list_remove_repeat(l): a new list, first occurrences kept in order
list_remove_repeat(l) == RemoveRepeatInto(<<>>, l)

----------------------------------------------------------------------------
(* tf.__version__ and Python's string comparison *)

\* character codes: "." is 46, "0".."9" are 48..57
TFVersions ==
    { <<49, 46, 51, 46, 48>>,           \* "1.3.0"
      <<49, 46, 52, 46, 48>>,           \* "1.4.0"
      <<49, 46, 49, 48, 46, 48>> }      \* "1.10.0"

V_1_3 == <<49, 46, 51>>    \* "1.3"
V_1_4 == <<49, 46, 52>>    \* "1.4"

RECURSIVE StrLess(_, _)
\* a < b on Python strings: lexicographic on character codes, a proper prefix is smaller
StrLess(a, b) ==
    IF b = <<>> THEN FALSE
    ELSE IF a = <<>> THEN TRUE
    ELSE IF Head(a) # Head(b) THEN Head(a) < Head(b)
    ELSE StrLess(Tail(a), Tail(b))

----------------------------------------------------------------------------
(* Layer constructors *)

NoCall == [op |-> "none", layer |-> 0, aux |-> 0, err |-> "", b_init |-> FALSE,
           created |-> <<>>, bias_added |-> FALSE, sampled |-> FALSE,
           offset_chan |-> 0, kshape |-> <<>>, assigned |-> {},
           args |-> <<>>, result |-> <<>>, return_last |-> FALSE, msg |-> ""]

Call(op, l) == [NoCall EXCEPT !.op = op, !.layer = l]

LayersIdle ==
    /\ tf_version = V_1_4
    /\ layers = <<>>
    /\ lists = <<>>
    /\ dicts = <<>>
    /\ nvar = 0
    /\ ntensor = 0
    /\ last = NoCall

LayerIds == 1..Len(layers)

\* a constructor can be called: the graph is within its bound, and no earlier
\* call raised (an exception propagates to the caller and ends the build)
CanConstruct == Len(layers) < MaxLayers /\ last.err = ""

Chan(l) == layers[l].shape[Len(layers[l].shape)]

\* variables n+1 .. n+k, as tf.get_variable / the layer's variable scope yields them
NewVars(k) == [i \in 1..k |-> nvar + i]

\* the attributes a constructor assigns on self once it has computed its outputs
LayerAttrs == {"outputs", "all_layers", "all_params", "all_drop"}

\* The constructor raised: no Layer object is returned, nothing else changes
Raise(call, err) ==
    /\ last' = [call EXCEPT !.err = err]
    /\ UNCHANGED <<tf_version, layers, lists, dicts, nvar, ntensor>>

\* self.all_layers = list(layer.all_layers); self.all_params = list(layer.all_params)
\* self.all_drop = dict(layer.all_drop); self.all_layers.extend([self.outputs])
\* self.all_params.extend(params)
AccumulateOn(hl, hd, L, out, params) ==
    LET rl == CopyRef(hl, L.all_layers)
        h1 == CopyObj(hl, L.all_layers)
        rp == CopyRef(h1, L.all_params)
        h2 == CopyObj(h1, L.all_params)
        rd == CopyRef(hd, L.all_drop)
        d1 == CopyObj(hd, L.all_drop)
        h3 == Extend(h2, rl, <<out>>)
        h4 == Extend(h3, rp, params)
    IN  [all_layers |-> rl, all_params |-> rp, all_drop |-> rd, lists |-> h4, dicts |-> d1]

Accumulate(l, out, params) == AccumulateOn(lists, dicts, layers[l], out, params)

\* A constructor that returns: the new Layer object and the heaps it leaves
ReturnWith(call, out, ntens, shape, acc, nnew) ==
    /\ layers' = Append(layers, [outputs |-> out, shape |-> shape,
                                 all_layers |-> acc.all_layers,
                                 all_params |-> acc.all_params,
                                 all_drop |-> acc.all_drop])
    /\ lists' = acc.lists
    /\ dicts' = acc.dicts
    /\ nvar' = nvar + nnew
    /\ ntensor' = ntensor + ntens
    /\ last' = [call EXCEPT !.assigned = LayerAttrs]
    /\ UNCHANGED tf_version

\* the usual case: one new output tensor
Return(call, shape, acc, nnew) == ReturnWith(call, ntensor + 1, 1, shape, acc, nnew)

\* W, and b when b_init is given: Conv1dLayer, Conv2dLayer, DeConv2dLayer,
\* AtrousConv2dLayer, DepthwiseConv2d
ConvOptionalBias(op, l, b_init, shape) ==
    LET params == IF b_init THEN NewVars(2) ELSE NewVars(1)
        call == [Call(op, l) EXCEPT !.b_init = b_init, !.created = params,
                                    !.bias_added = b_init]
    IN  Return(call, shape, Accumulate(l, ntensor + 1, params), Len(params))

\* every variable the layer's variable scope collected
CollectedVars(op, l, n) ==
    LET params == NewVars(n)
        call == [Call(op, l) EXCEPT !.created = params]
    IN  Return(call, layers[l].shape, Accumulate(l, ntensor + 1, params), n)

\* no variable at all
NoParams(op, l) ==
    Return(Call(op, l), layers[l].shape, Accumulate(l, ntensor + 1, <<>>), 0)

InShapes == {<<2, 2, 2>>, <<2, 2, 2, 2>>}
OutChans == {2, 4}
KernelShapes == {<<1, 1>>, <<1, 2>>}
UpstreamKinds ==
    { [nparams |-> 0, drop |-> EmptyDict],
      [nparams |-> 1, drop |-> [EmptyDict EXCEPT !["keep_a"] = 1]],
      [nparams |-> 2, drop |-> [EmptyDict EXCEPT !["keep_a"] = 2, !["keep_b"] = 1]] }

\* A layer of the upstream-layer interface (InputLayer, EmbeddingInputlayer,
\* DropoutLayer, ...): an output tensor, a parameter list and a drop map
UpstreamLayer(kind, shape) ==
    /\ CanConstruct
    /\ LET params == NewVars(kind.nparams)
           acc == [all_layers |-> Len(lists) + 1, all_params |-> Len(lists) + 2,
                   all_drop |-> Len(dicts) + 1,
                   lists |-> lists \o << <<ntensor + 1>>, params >>,
                   dicts |-> Append(dicts, kind.drop)]
       IN  Return([Call("UpstreamLayer", 0) EXCEPT !.created = params], shape, acc, kind.nparams)

\* the statements that ran before statement s was reached
StepsBefore(steps, s) ==
    SubSeq(steps, 1, (CHOOSE i \in 1..Len(steps) : steps[i] = s) - 1)

\* statement s of `steps` raised err: the variables created and the attributes
\* assigned by the statements before it stay behind, no Layer object is returned
RaiseAt(call, err, steps, s) ==
    LET before == StepsBefore(steps, s)
        nnew == Len(SelectSeq(before, LAMBDA x : x \in {"W", "b"}))
    IN  /\ last' = [call EXCEPT !.err = err, !.created = NewVars(nnew),
                                !.assigned = Range(before) \cap LayerAttrs,
                                !.sampled = "tf_batch_map_offsets" \in Range(before)]
        /\ nvar' = nvar + nnew
        /\ UNCHANGED <<tf_version, layers, lists, dicts, ntensor>>

\* activation arguments: None, or a function
Acts == {"None", "identity", "relu"}

\* The statements of Conv1dLayer.__init__, in source order: the log line reads
\* act.__name__, then None is replaced by tf.identity
Conv1dSteps ==
    << "Layer.__init__", "act.__name__", "act_default", "W", "b", "outputs",
       "all_layers", "all_params", "all_drop" >>

\* the activation in force at statement s: None until "act_default" has run
ActAt(steps, s, act) ==
    IF act = "None" /\ "act_default" \in Range(StepsBefore(steps, s))
    THEN "identity" ELSE act

Conv1dLayer(l, b_init, act) ==
    /\ CanConstruct
    /\ LET call0 == [Call("Conv1dLayer", l) EXCEPT !.b_init = b_init, !.args = <<act>>]
       IN  IF ActAt(Conv1dSteps, "act.__name__", act) = "None"
           THEN \* None has no attribute __name__
                RaiseAt(call0, "AttributeError", Conv1dSteps, "act.__name__")
           ELSE LET params == IF b_init THEN NewVars(2) ELSE NewVars(1)
                    call == [call0 EXCEPT !.created = params, !.bias_added = b_init,
                                          !.result = <<ActAt(Conv1dSteps, "outputs", act)>>]
                IN  Return(call, layers[l].shape, Accumulate(l, ntensor + 1, params),
                           Len(params))

Conv2dLayer(l, b_init, n_out) ==
    /\ CanConstruct
    /\ ConvOptionalBias("Conv2dLayer", l, b_init,
                        [layers[l].shape EXCEPT ![Len(layers[l].shape)] = n_out])

DeConv2dLayer(l, b_init) ==
    /\ CanConstruct
    /\ ConvOptionalBias("DeConv2dLayer", l, b_init, layers[l].shape)

AtrousConv2dLayer(l, b_init) ==
    /\ CanConstruct
    /\ ConvOptionalBias("AtrousConv2dLayer", l, b_init, layers[l].shape)

DepthwiseConv2d(l, b_init) ==
    /\ CanConstruct
    /\ ConvOptionalBias("DepthwiseConv2d", l, b_init, layers[l].shape)

\* W and b, unconditionally
Conv3dLayer(l) ==
    /\ CanConstruct
    /\ LET call == [Call("Conv3dLayer", l) EXCEPT !.b_init = TRUE, !.created = NewVars(2),
                                                  !.bias_added = TRUE]
       IN  Return(call, layers[l].shape, Accumulate(l, ntensor + 1, NewVars(2)), 2)

DeConv3dLayer(l) ==
    /\ CanConstruct
    /\ LET call == [Call("DeConv3dLayer", l) EXCEPT !.b_init = TRUE, !.created = NewVars(2),
                                                    !.bias_added = TRUE]
       IN  Return(call, layers[l].shape, Accumulate(l, ntensor + 1, NewVars(2)), 2)

\* (mutant) height and width are always read from axes (1, 2)
ResizeAxesOfRank4(rank) == <<2, 3>>

\* the axes (1-based) holding height and width: (0, 1) of a rank-3 input,
\* (1, 2) of a rank-4 input
ResizeAxes(rank) == IF rank = 3 THEN <<1, 2>> ELSE <<2, 3>>

\* size = [int(size[0] * height), int(size[1] * width)] when is_scale, else size
\* as given; size holds numerators over Q, int() truncates
ResizeTarget(shape, size, is_scale) ==
    LET ax == ResizeAxes(Len(shape))
    IN  IF is_scale
        THEN << (size[1] * shape[ax[1]]) \div Q, (size[2] * shape[ax[2]]) \div Q >>
        ELSE << size[1] \div Q, size[2] \div Q >>

\* the shape tf.image.resize_images gives its result
ResizedShape(shape, target) ==
    LET ax == IF Len(shape) = 3 THEN <<1, 2>> ELSE <<2, 3>>
    IN  [shape EXCEPT ![ax[1]] = target[1], ![ax[2]] = target[2]]

\* UpSampling2dLayer and DownSampling2dLayer share their constructor body
Resample(op, l, size, is_scale) ==
    LET shape == layers[l].shape
        call0 == [Call(op, l) EXCEPT !.args = <<size, is_scale>>]
    IN  IF Len(shape) \in {3, 4}
        THEN LET target == ResizeTarget(shape, size, is_scale)
                 call == [call0 EXCEPT !.result = target]
             IN  Return(call, ResizedShape(shape, target),
                        Accumulate(l, ntensor + 1, <<>>), 0)
        ELSE Raise(call0, "Exception")

UpSampling2dLayer(l, size, is_scale) ==
    /\ CanConstruct
    /\ Resample("UpSampling2dLayer", l, size, is_scale)

DownSampling2dLayer(l, size, is_scale) ==
    /\ CanConstruct
    /\ Resample("DownSampling2dLayer", l, size, is_scale)

ROIPoolingLayer(l) ==
    /\ CanConstruct
    /\ NoParams("ROIPoolingLayer", l)

\* depthwise kernel, pointwise kernel, and the bias when use_bias
SeparableConv2dLayer(l, use_bias) ==
    /\ CanConstruct
    /\ CollectedVars("SeparableConv2dLayer", l, IF use_bias THEN 3 ELSE 2)

\* deconv2d(): on TensorFlow above "1.3" a bare Layer fed by conv2d_transpose,
\* otherwise a DeConv2dLayer
deconv2d(l, b_init) ==
    /\ CanConstruct
    /\ IF StrLess(V_1_3, tf_version)
       THEN CollectedVars("deconv2d", l, IF b_init THEN 2 ELSE 1)
       ELSE ConvOptionalBias("deconv2d", l, b_init, layers[l].shape)

\* DeConv3d calls conv3d_transpose without its inputs argument: a TypeError
DeConv3d(l) ==
    /\ CanConstruct
    /\ Raise(Call("DeConv3d", l), "TypeError")

\* the recurrent layers: the cell's kernel and bias, per direction
\* initial_state arguments: None, or a state tensor supplied by the caller
StateArgs == {"None", "given_state"}

\* if initial_state is None: self.initial_state = cell.zero_state(...), with no
\* else branch: the attribute stays unset when a state is passed in
SelfInitialState(initial_state) ==
    IF initial_state = "None" THEN "zero_state" ELSE "unset"

\* RNNLayer and ConvLSTMLayer: rank check, cell, initial state, unrolled steps
\* starting from state = self.initial_state, then the bookkeeping
StaticRnn(op, l, rank, initial_state) ==
    LET call0 == [Call(op, l) EXCEPT !.args = <<initial_state>>]
        attr == SelfInitialState(initial_state)
    IN  IF Len(layers[l].shape) # rank
        THEN Raise(call0, "Exception")
        ELSE IF attr = "unset"
        THEN \* reading self.initial_state, an attribute never assigned
             Raise(call0, "AttributeError")
        ELSE LET params == NewVars(2)
                 call == [call0 EXCEPT !.created = params,
                                       !.result = [initial_state |-> attr, state0 |-> attr]]
             IN  Return(call, layers[l].shape, Accumulate(l, ntensor + 1, params), 2)

RNNLayer(l, initial_state) ==
    /\ CanConstruct
    /\ StaticRnn("RNNLayer", l, 3, initial_state)

ConvLSTMLayer(l, initial_state) ==
    /\ CanConstruct
    /\ StaticRnn("ConvLSTMLayer", l, 5, initial_state)

\* dropout arguments: None, a float, a 2-tuple, a 2-list, and values of two
\* other types; keep probabilities are in percent
NoDropout == [type |-> "None", val |-> <<>>]

DropoutArgs ==
    { NoDropout,
      [type |-> "float", val |-> <<70>>],
      [type |-> "tuple", val |-> <<80, 50>>],
      [type |-> "list", val |-> <<90, 60>>],
      [type |-> "int", val |-> <<1>>],
      [type |-> "str", val |-> <<50, 50>>] }

\* n_layer arguments
LayerCounts == {1, 2, 3}

\* `if dropout:`
Truthy(dropout) == dropout.type # "None"

\* type(dropout) in [tuple, list], or isinstance(dropout, float); else the
\* 'Invalid dropout type' exception
DropoutTypeOk(dropout) == dropout.type \in {"tuple", "list", "float"}

\* in_keep_prob, out_keep_prob
KeepProbs(dropout) ==
    IF dropout.type \in {"tuple", "list"}
    THEN <<dropout.val[1], dropout.val[2]>>
    ELSE <<dropout.val[1], dropout.val[1]>>

\* rnn_creator(): a cell without a DropoutWrapper
BareCell == [wrapped |-> FALSE, input_keep_prob |-> 100, output_keep_prob |-> 100]

\* cell_creator() of DynamicRNNLayer and BiRNNLayer:
\* DropoutWrapper_fn(rnn_creator(), input_keep_prob=in_keep_prob, output_keep_prob=1.0)
CellCreator(dropout) ==
    IF Truthy(dropout)
    THEN [wrapped |-> TRUE, input_keep_prob |-> KeepProbs(dropout)[1],
          output_keep_prob |-> 100]
    ELSE BareCell

\* the cells of self.cell: one cell, or the n_layer cells of a MultiRNNCell
StackedCells(dropout, n_layer) == [i \in 1..n_layer |-> CellCreator(dropout)]

\* the first statement of a dynamic or bidirectional RNN constructor that raises
\* on this input and dropout, "" if none does
RnnArgsError(shape, dropout) ==
    IF Len(shape) # 3 THEN "Exception"
    ELSE IF Truthy(dropout) /\ ~DropoutTypeOk(dropout) THEN "Exception"
    ELSE ""

\* the message of that exception
RnnArgsMessage(shape, dropout) ==
    IF Len(shape) # 3 THEN "Input dimension should be rank 3"
    ELSE IF Truthy(dropout) /\ ~DropoutTypeOk(dropout) THEN "Invalid dropout type"
    ELSE ""

\* n_hidden arguments
HiddenSizes == {1, 3}

\* tf.concat of two tensors of the same shape along an axis (1-based here)
concat2(shape, axis) == [shape EXCEPT ![axis] = 2 * @]

\* tf.concat(outputs, 1) of a list of n tensors of the same shape
concat_list(n, shape) == [shape EXCEPT ![2] = n * @]

\* the static shape after tf.reshape(t, target): a leading -1 stands for the
\* extent that keeps the element count
reshape_to(shape, target) ==
    IF target[1] = -1
    THEN IF Product(shape) % Product(Tail(target)) = 0
         THEN <<Product(shape) \div Product(Tail(target))>> \o Tail(target)
         ELSE <<"InvalidArgumentError">>
    ELSE IF Product(shape) = Product(target) THEN target
    ELSE <<"InvalidArgumentError">>

\* (mutant order) self.outputs is assigned before return_last is looked at
BiRnnStepsOutputsFirst ==
    << "Layer.__init__", "rank_check", "dropout_check", "cell_creator", "W", "b", "W", "b",
       "outputs", "return_last_check", "all_layers", "all_params", "all_drop" >>

\* The statements of BiRNNLayer.__init__ and BiDynamicRNNLayer.__init__ that
\* raise, create variables (the forward and the backward cell's, when the rnn
\* function builds them) or assign one of LayerAttrs, in source order
BiRnnSteps ==
    << "Layer.__init__", "rank_check", "dropout_check", "cell_creator", "W", "b", "W", "b",
       "return_last_check", "outputs", "all_layers", "all_params", "all_drop" >>

\* BiRNNLayer's self.outputs for return_last=False, from the n_steps outputs
\* [batch_size, 2 * n_hidden] of static_bidirectional_rnn (n_steps is the
\* input's second extent)
BiRnnOutputShape(in_shape, n_hidden, return_seq_2d) ==
    LET n_steps == in_shape[2]
        outputs == concat_list(n_steps, <<in_shape[1], 2 * n_hidden>>)
    IN  IF return_seq_2d THEN reshape_to(outputs, <<-1, n_hidden * 2>>)
        ELSE reshape_to(outputs, <<-1, n_steps, n_hidden * 2>>)

BiRNNLayer(l, dropout, n_layer, return_last, return_seq_2d, n_hidden) ==
    /\ CanConstruct
    /\ LET call0 == [Call("BiRNNLayer", l) EXCEPT
                        !.args = <<dropout, n_layer, return_seq_2d, n_hidden>>,
                        !.return_last = return_last]
           err == RnnArgsError(layers[l].shape, dropout)
           cells == [fw_cell |-> StackedCells(dropout, n_layer),
                     bw_cell |-> StackedCells(dropout, n_layer)]
       IN  IF err # ""
           THEN Raise([call0 EXCEPT !.msg = RnnArgsMessage(layers[l].shape, dropout)], err)
           ELSE IF return_last
           THEN RaiseAt([call0 EXCEPT !.msg = "Do not support return_last",
                                      !.result = cells],
                        "Exception", BiRnnSteps, "return_last_check")
           ELSE LET params == NewVars(4)
                    call == [call0 EXCEPT !.created = params, !.result = cells]
                IN  Return(call, BiRnnOutputShape(layers[l].shape, n_hidden, return_seq_2d),
                           Accumulate(l, ntensor + 1, params), 4)

\* a state value of the dynamic layers: its kind and the tensor of the
\* dynamic_rnn call that produced it (0 for one supplied by the caller)
StateValue(kind, tensor) == <<kind, tensor>>

\* what DynamicRNNLayer.__init__ computes before its bookkeeping: the cells, the
\* initial state (the zero state unless one is given) and the final state
\* returned by tf.nn.dynamic_rnn for output tensor `out`
DynamicRnn(shape, dropout, n_layer, initial_state, out) ==
    [ err |-> RnnArgsError(shape, dropout),
      cell |-> IF RnnArgsError(shape, dropout) = "" THEN StackedCells(dropout, n_layer)
               ELSE <<>>,
      initial_state |-> IF initial_state[1] = "None" THEN StateValue("zero_state", out)
                        ELSE initial_state,
      final_state |-> StateValue("last_states", out) ]

DynamicRNNLayer(l, dropout, n_layer, initial_state) ==
    /\ CanConstruct
    /\ LET call0 == [Call("DynamicRNNLayer", l) EXCEPT
                        !.args = <<dropout, n_layer, initial_state>>]
           net == DynamicRnn(layers[l].shape, dropout, n_layer,
                             StateValue(initial_state, 0), ntensor + 1)
       IN  IF net.err # ""
           THEN Raise(call0, net.err)
           ELSE LET params == NewVars(2)
                    call == [call0 EXCEPT !.created = params, !.result = net]
                IN  Return(call, layers[l].shape, Accumulate(l, ntensor + 1, params), 2)

\* cell_creator(is_last) of BiDynamicRNNLayer when dropout is set: the output keep
\* probability is out_keep_prob on the last cell and 1.0 on the others
BiDynamicCell(dropout, is_last) ==
    [wrapped |-> TRUE, input_keep_prob |-> KeepProbs(dropout)[1],
     output_keep_prob |-> IF is_last THEN KeepProbs(dropout)[2] ELSE 100]

\* BiDynamicRNNLayer's self.outputs for return_last=False, from the forward and
\* backward outputs [batch_size, max_length, n_hidden] of bidirectional_dynamic_rnn
BiDynamicOutputShape(in_shape, n_hidden, return_seq_2d) ==
    LET outputs == concat2(<<in_shape[1], in_shape[2], n_hidden>>, 3)
    IN  IF return_seq_2d THEN reshape_to(outputs, <<-1, 2 * n_hidden>>)
        ELSE reshape_to(outputs, <<outputs[1], outputs[2], 2 * n_hidden>>)

BiDynamicRNNLayer(l, dropout, n_layer, return_last, return_seq_2d, n_hidden) ==
    /\ CanConstruct
    /\ LET call0 == [Call("BiDynamicRNNLayer", l) EXCEPT
                        !.args = <<dropout, n_layer, return_seq_2d, n_hidden>>,
                        !.return_last = return_last]
           err == RnnArgsError(layers[l].shape, dropout)
           cells == [i \in 1..n_layer |->
                        IF Truthy(dropout) THEN BiDynamicCell(dropout, i = n_layer)
                        ELSE BareCell]
       IN  IF err # ""
           THEN Raise([call0 EXCEPT !.msg = RnnArgsMessage(layers[l].shape, dropout)], err)
           ELSE IF n_layer > 1 /\ ~Truthy(dropout)
           THEN \* cell_creator(is_last=...) on `lambda: rnn_creator()`, which takes
                \* no argument
                RaiseAt(call0, "TypeError", BiRnnSteps, "cell_creator")
           ELSE IF return_last
           THEN RaiseAt([call0 EXCEPT !.msg = "Do not support return_last",
                                      !.result = [fw_cell |-> cells, bw_cell |-> cells]],
                        "Exception", BiRnnSteps, "return_last_check")
           ELSE LET params == NewVars(4)
                    call == [call0 EXCEPT !.created = params,
                                          !.result = [fw_cell |-> cells, bw_cell |-> cells]]
                IN  Return(call, BiDynamicOutputShape(layers[l].shape, n_hidden, return_seq_2d),
                           Accumulate(l, ntensor + 1, params), 4)

\* The statements of DeformableConv2dLayer.__init__ that raise, create a variable
\* or assign one of LayerAttrs, in source order
\* (mutant order) the offset shape is asserted after the variables are created
DeformableStepsAssertLate ==
    << "version_check", "Layer.__init__", "grid", "tf_batch_map_offsets", "W", "b",
       "assert_offset", "outputs", "all_layers", "all_params", "all_drop" >>

DeformableSteps ==
    << "version_check", "Layer.__init__", "assert_offset", "grid", "tf_batch_map_offsets",
       "W", "b", "outputs", "all_layers", "all_params", "all_drop" >>

\* (mutant) the offset layer's shape is not checked
OffsetShapeUnchecked(offset_shape, shape) == TRUE

\* assert offset.get_shape()[-1] == 2 * shape[0] * shape[1]
OffsetShapeOk(offset_shape, shape) ==
    offset_shape[Len(offset_shape)] = 2 * shape[1] * shape[2]

DeformableConv2dLayer(l, o, shape, b_init) ==
    /\ CanConstruct
    /\ LET call0 == [Call("DeformableConv2dLayer", l) EXCEPT
                        !.aux = o, !.b_init = b_init, !.kshape = shape,
                        !.offset_chan = Chan(o)]
       IN  IF StrLess(tf_version, V_1_4)
           THEN RaiseAt(call0, "Exception", DeformableSteps, "version_check")
           ELSE IF ~OffsetShapeOk(layers[o].shape, shape)
           THEN RaiseAt(call0, "AssertionError", DeformableSteps, "assert_offset")
           ELSE
             LET \* input_deform = tf_batch_map_offsets(...); W and b are both created,
                 \* and b is added, whatever b_init is
                 W == nvar + 1
                 b == nvar + 2
                 out == ntensor + 1
                 A == layers[l]
                 P == layers[o]
                 rl == CopyRef(lists, A.all_layers)
                 h1 == CopyObj(lists, A.all_layers)
                 rp == CopyRef(h1, A.all_params)
                 h2 == CopyObj(h1, A.all_params)
                 rd == CopyRef(dicts, A.all_drop)
                 d1 == CopyObj(dicts, A.all_drop)
                 offset_params == NotIn(h2[P.all_params], h2[A.all_params])
                 offset_layers == NotIn(h2[P.all_layers], h2[A.all_layers])
                 h3 == Extend(h2, rp, offset_params)
                 h4 == Extend(h3, rl, offset_layers)
                 d2 == Update(d1, rd, d1[P.all_drop])
                 h5 == Extend(h4, rl, <<out>>)
                 h6 == Extend(h5, rp, <<W, b>>)
                 acc == [all_layers |-> rl, all_params |-> rp, all_drop |-> rd,
                         lists |-> h6, dicts |-> d2]
                 call == [call0 EXCEPT !.created = <<W, b>>, !.bias_added = TRUE,
                                       !.sampled = TRUE]
             IN  Return(call, [A.shape EXCEPT ![Len(A.shape)] = shape[Len(shape)]], acc, 2)

\* (mutant) the decoder is given initial_state_decode as it is, None included
DecoderInitialStateAsGiven(initial_state_decode, network_encode) == initial_state_decode

\* initial_state=(network_encode.final_state if initial_state_decode is None
\*                else initial_state_decode)
DecoderInitialState(initial_state_decode, network_encode) ==
    IF initial_state_decode[1] = "None" THEN network_encode.final_state
    ELSE initial_state_decode

\* Seq2Seq: an encoder and a decoder DynamicRNNLayer, built in that order; the
\* layer's collections are the encoder's followed by the decoder's, repeats removed
Seq2Seq(e, d, initial_state_encode, initial_state_decode, dropout) ==
    /\ CanConstruct
    /\ LET call0 == [Call("Seq2Seq", e) EXCEPT
                        !.aux = d,
                        !.args = <<initial_state_encode, initial_state_decode, dropout>>]
           enc == DynamicRnn(layers[e].shape, dropout, 1,
                             StateValue(initial_state_encode, 0), ntensor + 1)
           dec == DynamicRnn(layers[d].shape, dropout, 1,
                             DecoderInitialState(StateValue(initial_state_decode, 0), enc),
                             ntensor + 2)
           network_encode == AccumulateOn(lists, dicts, layers[e], ntensor + 1,
                                          <<nvar + 1, nvar + 2>>)
           network_decode == AccumulateOn(network_encode.lists, network_encode.dicts,
                                          layers[d], ntensor + 2, <<nvar + 3, nvar + 4>>)
           out == ntensor + 2
           h0 == network_decode.lists
           d0 == network_decode.dicts
           rl == CopyRef(h0, network_encode.all_layers)
           h1 == CopyObj(h0, network_encode.all_layers)
           rp == CopyRef(h1, network_encode.all_params)
           h2 == CopyObj(h1, network_encode.all_params)
           rd == CopyRef(d0, network_encode.all_drop)
           d1 == CopyObj(d0, network_encode.all_drop)
           h3 == Extend(h2, rl, h2[network_decode.all_layers])
           h4 == Extend(h3, rp, h3[network_decode.all_params])
           d2 == Update(d1, rd, d1[network_decode.all_drop])
           h5 == Extend(h4, rl, <<out>>)
           \* list_remove_repeat returns new list objects
           h6 == h5 \o << list_remove_repeat(h5[rl]), list_remove_repeat(h5[rp]) >>
           acc == [all_layers |-> Len(h5) + 1, all_params |-> Len(h5) + 2, all_drop |-> rd,
                   lists |-> h6, dicts |-> d2]
           call == [call0 EXCEPT
                      !.created = <<nvar + 1, nvar + 2, nvar + 3, nvar + 4>>,
                      !.result = [network_encode |-> enc, network_decode |-> dec,
                                  initial_state_encode |-> enc.initial_state,
                                  initial_state_decode |-> dec.initial_state,
                                  final_state_encode |-> enc.final_state,
                                  final_state_decode |-> dec.final_state]]
       IN  IF enc.err # ""
           THEN Raise(call0, enc.err)
           ELSE IF dec.err # ""
           THEN \* the decoder raised: the encoder, its output tensor and its
                \* variables exist already, no Seq2Seq layer is returned
                /\ last' = [call0 EXCEPT !.err = dec.err, !.created = <<nvar + 1, nvar + 2>>]
                /\ nvar' = nvar + 2
                /\ ntensor' = ntensor + 1
                /\ lists' = network_encode.lists
                /\ dicts' = network_encode.dicts
                /\ UNCHANGED <<tf_version, layers>>
           ELSE ReturnWith(call, out, 2, layers[d].shape, acc, 4)

InitLayers ==
    /\ tf_version \in TFVersions
    /\ layers = <<>>
    /\ lists = <<>>
    /\ dicts = <<>>
    /\ nvar = 0
    /\ ntensor = 0
    /\ last = NoCall
    /\ NumIdle
    /\ IdxIdle

Construct ==
    \/ \E kind \in UpstreamKinds, shape \in InShapes : UpstreamLayer(kind, shape)
    \/ \E l \in LayerIds, b_init \in BOOLEAN : Conv1dLayer(l, b_init, "identity")
    \/ \E l \in LayerIds, b_init \in BOOLEAN, n_out \in OutChans : Conv2dLayer(l, b_init, n_out)
    \/ \E l \in LayerIds, b_init \in BOOLEAN : DeConv2dLayer(l, b_init)
    \/ \E l \in LayerIds, b_init \in BOOLEAN : AtrousConv2dLayer(l, b_init)
    \/ \E l \in LayerIds, b_init \in BOOLEAN : DepthwiseConv2d(l, b_init)
    \/ \E l \in LayerIds : Conv3dLayer(l)
    \/ \E l \in LayerIds : DeConv3dLayer(l)
    \/ \E l \in LayerIds : UpSampling2dLayer(l, <<Q, Q>>, TRUE)
    \/ \E l \in LayerIds : DownSampling2dLayer(l, <<Q, Q>>, TRUE)
    \/ \E l \in LayerIds : ROIPoolingLayer(l)
    \/ \E l \in LayerIds, use_bias \in BOOLEAN : SeparableConv2dLayer(l, use_bias)
    \/ \E l \in LayerIds, b_init \in BOOLEAN : deconv2d(l, b_init)
    \/ \E l \in LayerIds : DeConv3d(l)
    \/ \E l \in LayerIds : RNNLayer(l, "None")
    \/ \E l \in LayerIds : BiRNNLayer(l, NoDropout, 1, FALSE, FALSE, 1)
    \/ \E l \in LayerIds : ConvLSTMLayer(l, "None")
    \/ \E l \in LayerIds : DynamicRNNLayer(l, NoDropout, 1, "None")
    \/ \E l \in LayerIds : BiDynamicRNNLayer(l, NoDropout, 1, FALSE, FALSE, 1)
    \/ \E e \in LayerIds, d \in LayerIds : Seq2Seq(e, d, "None", "None", NoDropout)
    \/ \E l \in LayerIds, o \in LayerIds, shape \in KernelShapes, b_init \in BOOLEAN :
          DeformableConv2dLayer(l, o, shape \o <<Chan(l), Chan(l)>>, b_init)

Next == Construct /\ UNCHANGED <<numvars, idxvars>>

Spec == InitLayers /\ [][Next]_vars

----------------------------------------------------------------------------
(* One constructor call, with every argument it branches on, on input layers
   of every rank *)

\* static shapes of the first input layer's outputs, ranks 2 to 5
BuildShapes ==
    { <<2, 3>>, <<2, 3, 1>>, <<3, 2, 2>>, <<1, 2, 3, 2>>, <<2, 3, 2, 1>>,
      <<2, 2, 2, 2>>, <<1, 2, 3, 2, 1>> }

\* size arguments, numerators over Q
ResizeSizes == { <<Q, Q>>, <<Q - 1, 2 * Q>>, <<2 * Q, Q + 1>>, <<3 * Q, 2 * Q>> }

\* two input layers, each with its output tensor and one parameter
InitBuild ==
    /\ tf_version \in TFVersions
    /\ \E shape \in BuildShapes :
          layers = << [outputs |-> 1, shape |-> shape, all_layers |-> 1,
                       all_params |-> 2, all_drop |-> 1],
                      [outputs |-> 2, shape |-> <<2, 2, 2>>, all_layers |-> 3,
                       all_params |-> 4, all_drop |-> 2] >>
    /\ lists = << <<1>>, <<1>>, <<2>>, <<2>> >>
    /\ dicts = << EmptyDict, [EmptyDict EXCEPT !["keep_a"] = 1] >>
    /\ nvar = 2
    /\ ntensor = 2
    /\ last = NoCall
    /\ NumIdle
    /\ IdxIdle

BuildOne ==
    \/ \E size \in ResizeSizes, is_scale \in BOOLEAN : UpSampling2dLayer(1, size, is_scale)
    \/ \E size \in ResizeSizes, is_scale \in BOOLEAN : DownSampling2dLayer(1, size, is_scale)
    \/ \E b_init \in BOOLEAN, act \in Acts : Conv1dLayer(2, b_init, act)
    \/ \E initial_state \in StateArgs : RNNLayer(1, initial_state)
    \/ \E initial_state \in StateArgs : ConvLSTMLayer(1, initial_state)
    \/ \E dropout \in DropoutArgs, n_layer \in LayerCounts, return_last \in BOOLEAN,
          return_seq_2d \in BOOLEAN, n_hidden \in HiddenSizes :
          BiRNNLayer(1, dropout, n_layer, return_last, return_seq_2d, n_hidden)
    \/ \E dropout \in DropoutArgs, n_layer \in LayerCounts, initial_state \in StateArgs :
          DynamicRNNLayer(1, dropout, n_layer, initial_state)
    \/ \E dropout \in DropoutArgs, n_layer \in LayerCounts, return_last \in BOOLEAN,
          return_seq_2d \in BOOLEAN, n_hidden \in HiddenSizes :
          BiDynamicRNNLayer(1, dropout, n_layer, return_last, return_seq_2d, n_hidden)
    \/ \E e \in LayerIds, d \in LayerIds, ise \in StateArgs, isd \in StateArgs,
          dropout \in DropoutArgs : Seq2Seq(e, d, ise, isd, dropout)

NextBuild == Len(layers) = 2 /\ BuildOne /\ UNCHANGED <<numvars, idxvars>>

SpecBuild == InitBuild /\ [][NextBuild]_vars

----------------------------------------------------------------------------
(* Inputs of one evaluation *)

Taps == dims.kh * dims.kw

DimSet ==
    { d \in [B : 1..MaxDim, H : 1..MaxDim, W : 1..MaxDim, C : 1..MaxDim,
             kh : 1..MaxDim, kw : 1..MaxDim] :
        d.B * d.C * d.H * d.W * d.kh * d.kw <= MaxElems }

\* an offset beyond every grid position, in either direction
Far == (2 * MaxDim + 1) * Q

OffsetVals == {-Far - 1, 0, 1, Q \div 2, Far + 1}
BatchSteps == {0, Q \div 2}
FeatureKinds == {"square", "corner"}

\* feature maps: distinct non-linear values, or the single bright corner of the
\* interpolation example ([[0,0],[0,10]])
MakeInputs(d, kind) ==
    [p \in (0..(d.B - 1)) \X (0..(d.H - 1)) \X (0..(d.W - 1)) \X (0..(d.C - 1)) |->
        IF kind = "square"
        THEN LET m == ((p[1] * d.H + p[2]) * d.W + p[3]) * d.C + p[4] + 1 IN m * m
        ELSE IF p[2] = d.H - 1 /\ p[3] = d.W - 1 THEN 10 ELSE 0]

\* predicted offsets: a row value on even channels, a column value on odd ones,
\* shifted by `step` from one batch element to the next
MakeOffsets(d, vr, vc, step) ==
    [p \in (0..(d.B - 1)) \X (0..(d.H - 1)) \X (0..(d.W - 1)) \X (0..(2 * d.kh * d.kw - 1)) |->
        (IF p[4] % 2 = 0 THEN vr ELSE vc) + p[1] * step]

InitDeform ==
    /\ pc = "start"
    /\ dims \in DimSet
    /\ \E kind \in FeatureKinds : inputs = MakeInputs(dims, kind)
    /\ \E vr \in OffsetVals, vc \in OffsetVals, step \in BatchSteps :
          offset = MakeOffsets(dims, vr, vc, step)
    /\ base_grid = Empty
    /\ grid_offset = Empty
    /\ inputs_bc = Empty
    /\ coords = Empty
    /\ corners = Empty
    /\ mapped_vals = Empty
    /\ input_deform = Empty
    /\ contraction = Empty
    /\ LayersIdle
    /\ IdxIdle

\* DeformableConv2dLayer.__init__, "Grid initialisation"
GridInit ==
    /\ pc = "start"
    /\ base_grid' = grid(dims.H, dims.W, dims.kh, dims.kw)
    /\ grid_offset' = GridOffset(dims.H, dims.W, dims.kh, dims.kw)
    /\ pc' = "grid"
    /\ UNCHANGED <<dims, inputs, offset, inputs_bc, coords, corners, mapped_vals,
                   input_deform, contraction>>
    /\ UNCHANGED <<layervars, idxvars>>

\* input_deform = tf_batch_map_offsets(self.inputs, offset, grid_offset)
MapOffsets ==
    /\ pc = "grid"
    /\ LET B == dims.B
           H == dims.H
           W == dims.W
           C == dims.C
           K == Taps
           inp == to_bc_h_w(inputs, B, H, W, C)
           crd == TileCoords(ClippedCoords(offset, grid_offset, B, H, W, K), B, H, W, K, C)
           mv == tf_batch_map_coordinates(inp, crd, B * C, H, W, K)
       IN  /\ inputs_bc' = inp
           /\ coords' = crd
           /\ corners' = [lt |-> coords_lt(crd), rb |-> coords_rb(crd),
                          lb |-> coords_lb(crd), rt |-> coords_rt(crd)]
           /\ mapped_vals' = mv
           /\ input_deform' = to_b_h_w_n_c(mv, B, H, W, K, C)
    /\ pc' = "done"
    /\ UNCHANGED <<dims, inputs, offset, base_grid, grid_offset, contraction>>
    /\ UNCHANGED <<layervars, idxvars>>

\* the static shape of a tensor held as a function on a product of index ranges
ShapeOf(t, rank) == [a \in 1..rank |-> Cardinality({p[a] : p \in DOMAIN t})]

RECURSIVE NumElements(_)
NumElements(shape) == IF shape = <<>> THEN 1 ELSE Head(shape) * NumElements(Tail(shape))

\* (mutant) padding='SAME': the three spatial extents are kept
conv3d_same(in_shape, w_shape) ==
    << in_shape[1], in_shape[2], in_shape[3], in_shape[4], w_shape[5] >>

\* tf.nn.conv3d(input, W, strides=[1, 1, 1, 1, 1], padding='VALID'): input is
\* (batch, depth, height, width, channels), W is (fd, fh, fw, in, out)
conv3d(in_shape, w_shape) ==
    << in_shape[1], in_shape[2] - w_shape[1] + 1, in_shape[3] - w_shape[2] + 1,
       in_shape[4] - w_shape[3] + 1, w_shape[5] >>

\* tf.reshape to a fully given shape: an error unless the element counts agree
reshape(shape, target) ==
    IF NumElements(shape) = NumElements(target) THEN target ELSE <<"InvalidArgumentError">>

\* W, then self.outputs = tf.reshape(act(tf.nn.conv3d(input_deform, W, ...) + b),
\* (batch, input_h, input_w, shape[-1])), for shape = [kh, kw, C, n_out]
Contract(n_out) ==
    /\ pc = "done"
    /\ LET shape == <<dims.kh, dims.kw, dims.C, n_out>>
           W == <<1, 1, shape[1] * shape[2], shape[3], shape[4]>>
           conv == conv3d(ShapeOf(input_deform, 5), W)
       IN  contraction' = [W |-> W, conv |-> conv,
                           outputs |-> reshape(conv, <<dims.B, dims.H, dims.W, shape[4]>>)]
    /\ pc' = "out"
    /\ UNCHANGED <<dims, inputs, offset, base_grid, grid_offset, inputs_bc, coords,
                   corners, mapped_vals, input_deform>>
    /\ UNCHANGED <<layervars, idxvars>>

NextDeform == GridInit \/ MapOffsets \/ \E n_out \in OutChans : Contract(n_out)

SpecDeform == InitDeform /\ [][NextDeform]_vars

----------------------------------------------------------------------------
(* advanced_indexing_op: the last valid output of every sequence of a batch *)

FeatureSizes == {1, 2}
SeqKinds == {"distinct", "by_step"}

\* a [batch_size, max_length, dim_size] tensor: every element different, or every
\* element equal to its step number
MakeSeq(shape, kind) ==
    [p \in (0..(shape[1] - 1)) \X (0..(shape[2] - 1)) \X (0..(shape[3] - 1)) |->
        IF kind = "distinct" THEN (p[1] * shape[2] + p[2]) * shape[3] + p[3] + 1
        ELSE p[2] + 1]

InitIndex ==
    /\ seq_shape \in (1..MaxDim) \X (1..MaxDim) \X FeatureSizes
    /\ \E kind \in SeqKinds : seq_input = MakeSeq(seq_shape, kind)
    /\ index \in [0..(seq_shape[1] - 1) -> 0..seq_shape[2]]
    /\ relevant = Empty
    /\ data = Empty
    /\ data_shape = <<1, 1, 1>>
    /\ length = Empty
    /\ NumIdle
    /\ LayersIdle

\* (mutant) the sequence length used as the step number, without the - 1
FlatIndexOfLength(batch_size, max_length, idx) ==
    [b \in 0..(batch_size - 1) |-> b * max_length + idx[b]]

\* index = tf.range(0, batch_size) * max_length + (index - 1)
FlatIndex(batch_size, max_length, idx) ==
    [b \in 0..(batch_size - 1) |-> b * max_length + (idx[b] - 1)]

\* flat = tf.reshape(input, [-1, dim_size]): row r of flat holds the dim_size
\* elements that follow position r * dim_size of input in row-major order
Flatten(input, shape) ==
    [r \in 0..(shape[1] * shape[2] - 1) |->
        [f \in 0..(shape[3] - 1) |-> input[<<r \div shape[2], r % shape[2], f>>]]]

\* tf.gather(flat, index): an index outside flat is an InvalidArgumentError on
\* CPU and gathers a row of zeros on GPU
gather(flat, idx, on_gpu) ==
    IF \A b \in DOMAIN idx : idx[b] \in DOMAIN flat
    THEN [err |-> "", rows |-> [b \in DOMAIN idx |-> flat[idx[b]]]]
    ELSE IF on_gpu
    THEN [err |-> "",
          rows |-> [b \in DOMAIN idx |->
                       IF idx[b] \in DOMAIN flat THEN flat[idx[b]]
                       ELSE [f \in DOMAIN flat[0] |-> 0]]]
    ELSE [err |-> "InvalidArgumentError", rows |-> Empty]

advanced_indexing_op(on_gpu) ==
    /\ relevant = Empty
    /\ seq_input # Empty
    /\ LET batch_size == seq_shape[1]
           max_length == seq_shape[2]
           flat == Flatten(seq_input, seq_shape)
       IN  relevant' = gather(flat, FlatIndex(batch_size, max_length, index), on_gpu)
    /\ UNCHANGED <<seq_input, seq_shape, index, data, data_shape, length>>
    /\ UNCHANGED <<numvars, layervars>>

NextIndex == \E on_gpu \in BOOLEAN : advanced_indexing_op(on_gpu)

SpecIndex == InitIndex /\ [][NextIndex]_vars

----------------------------------------------------------------------------
(* retrieve_seq_length_op: sequence lengths of zero-padded data *)

BatchSizes == {1, 2}

\* feature vectors of one step: all zero, all negative, zero but for the last
\* feature, and features of alternating sign
StepKinds == {"zero", "negative", "last_only", "alternating"}

MakeStep(kind, f, n_features) ==
    CASE kind = "zero" -> 0
      [] kind = "negative" -> 0 - (f + 1)
      [] kind = "last_only" -> IF f = n_features - 1 THEN 2 ELSE 0
      [] OTHER -> IF f % 2 = 0 THEN 1 ELSE 0 - 1

InitLength ==
    /\ data_shape \in BatchSizes \X (1..MaxDim) \X FeatureSizes
    /\ \E kinds \in [(0..(data_shape[1] - 1)) \X (0..(data_shape[2] - 1)) -> StepKinds] :
          data = [p \in (0..(data_shape[1] - 1)) \X (0..(data_shape[2] - 1))
                         \X (0..(data_shape[3] - 1)) |->
                      MakeStep(kinds[<<p[1], p[2]>>], p[3], data_shape[3])]
    /\ length = Empty
    /\ seq_input = Empty
    /\ seq_shape = <<1, 1, 1>>
    /\ index = Empty
    /\ relevant = Empty
    /\ NumIdle
    /\ LayersIdle

\* tf.abs, tf.sign
abs(x) == IF x < 0 THEN 0 - x ELSE x
sign(x) == IF x > 0 THEN 1 ELSE IF x < 0 THEN 0 - 1 ELSE 0

\* tf.reduce_max(t, 2) of a [batch_size, n_step, n_features] tensor
reduce_max(t, shape) ==
    [p \in (0..(shape[1] - 1)) \X (0..(shape[2] - 1)) |->
        LET vals == {t[<<p[1], p[2], f>>] : f \in 0..(shape[3] - 1)}
        IN  CHOOSE m \in vals : \A v \in vals : v <= m]

RECURSIVE SumUpTo(_, _, _)
SumUpTo(t, b, n) == IF n = 0 THEN 0 ELSE SumUpTo(t, b, n - 1) + t[<<b, n - 1>>]

\* tf.reduce_sum(t, 1) of a [batch_size, n_step] tensor
reduce_sum(t, shape) == [b \in 0..(shape[1] - 1) |-> SumUpTo(t, b, shape[2])]

\* used = tf.sign(tf.reduce_max(tf.abs(data), 2)); length = tf.reduce_sum(used, 1)
retrieve_seq_length_op ==
    /\ length = Empty
    /\ data # Empty
    /\ LET absd == [p \in DOMAIN data |-> abs(data[p])]
           mx == reduce_max(absd, data_shape)
           used == [p \in DOMAIN mx |-> sign(mx[p])]
       IN  length' = reduce_sum(used, data_shape)
    /\ UNCHANGED <<seq_input, seq_shape, index, relevant, data, data_shape>>
    /\ UNCHANGED <<numvars, layervars>>

NextLength == retrieve_seq_length_op

SpecLength == InitLength /\ [][NextLength]_vars

----------------------------------------------------------------------------
(* Properties of the sampling pipeline (checked under SpecDeform) *)

Positions == (0..(dims.H - 1)) \X (0..(dims.W - 1)) \X (0..(Taps - 1))

\* grid + predicted offset of batch element b at position q = <<i, j, k>>, before clipping
RawCoord(b, q) ==
    << grid_offset[q][1] + offset[<<b, q[1], q[2], 2 * q[3]>>],
       grid_offset[q][2] + offset[<<b, q[1], q[2], 2 * q[3] + 1>>] >>

\* C1: every coordinate handed to the bilinear sampler has its row component in
\* [0, H-1] and its column component in [0, W-1], however large the offsets
C1_CoordsInBounds ==
    pc = "done" =>
        \A p \in DOMAIN coords :
            /\ 0 <= coords[p][1] /\ coords[p][1] <= (dims.H - 1) * Q
            /\ 0 <= coords[p][2] /\ coords[p][2] <= (dims.W - 1) * Q

\* C1 witness: sampling has run on offsets that push a row beyond H-1 and a column below 0
C1_Witness ==
    /\ pc = "done"
    /\ \E b \in 0..(dims.B - 1), q \in Positions :
          /\ RawCoord(b, q)[1] > (dims.H - 1) * Q
          /\ RawCoord(b, q)[2] < 0

\* C2: the coordinate field used to sample inputs[b, :, :, c] is the clipped
\* (grid + offset) field of the same batch element b, for every channel c
C2_ChannelsUseOwnBatchCoords ==
    pc = "done" =>
        \A b \in 0..(dims.B - 1), c \in 0..(dims.C - 1), q \in Positions :
            coords[<<b * dims.C + c, q[1], q[2], q[3]>>] =
                << Min(Max(RawCoord(b, q)[1], 0), (dims.H - 1) * Q),
                   Min(Max(RawCoord(b, q)[2], 0), (dims.W - 1) * Q) >>

\* C3: the kh*kw per-tap kernel offsets relative to the output location are the
\* pairs (a - floor((kh-1)/2), b - floor((kw-1)/2)), a in 0..kh-1, b in 0..kw-1,
\* in row-major order (tap k is a = k div kw, b = k mod kw)
C3_KernelOffsetsCentredRowMajor ==
    pc # "start" =>
        \A q \in Positions :
            grid_offset[q] =
                << (q[1] + (q[3] \div dims.kw) - ((dims.kh - 1) \div 2)) * Q,
                   (q[2] + (q[3] % dims.kw) - ((dims.kw - 1) \div 2)) * Q >>

\* C4: at a coordinate whose two components are whole numbers the sampled value
\* of slice n is inputs[n, r, q] exactly
C4_ExactPassthrough ==
    pc = "done" =>
        \A p \in DOMAIN coords :
            (coords[p][1] % Q = 0 /\ coords[p][2] % Q = 0) =>
                mapped_vals[p] = Q * Q * inputs_bc[<<p[1], coords[p][1] \div Q, coords[p][2] \div Q>>]

\* C4 witness: a whole-number coordinate was sampled in a slice other than the
\* first, on a map whose cells differ
C4_Witness ==
    /\ pc = "done"
    /\ \E p \in DOMAIN coords :
          /\ coords[p][1] % Q = 0 /\ coords[p][2] % Q = 0
          /\ p[1] > 0
          /\ \E r \in DOMAIN inputs_bc :
                inputs_bc[r] # inputs_bc[<<p[1], coords[p][1] \div Q, coords[p][2] \div Q>>]

\* the bilinear formula of C7 at coordinate <<r, q>> (numerators over Q) in slice n
BilinearExpected(n, r, q) ==
    LET r0 == r \div Q
        q0 == q \div Q
        r1 == IF r % Q = 0 THEN r0 ELSE r0 + 1
        q1 == IF q % Q = 0 THEN q0 ELSE q0 + 1
        fr == r - Q * r0
        fq == q - Q * q0
    IN    (Q - fr) * (Q - fq) * inputs_bc[<<n, r0, q0>>]
        + fr * (Q - fq) * inputs_bc[<<n, r1, q0>>]
        + (Q - fr) * fq * inputs_bc[<<n, r0, q1>>]
        + fr * fq * inputs_bc[<<n, r1, q1>>]

\* the 2x2 feature [[0,0],[0,10]] in slice n
IsCornerExample(n) ==
    /\ dims.H = 2 /\ dims.W = 2
    /\ \A i \in 0..1, j \in 0..1 :
          inputs_bc[<<n, i, j>>] = (IF i = 1 /\ j = 1 THEN 10 ELSE 0)

\* C7: the sampled value is (1-fr)(1-fq) v[floor r, floor q] + fr(1-fq) v[ceil r, floor q]
\* + (1-fr)fq v[floor r, ceil q] + fr fq v[ceil r, ceil q]; the feature
\* [[0,0],[0,10]] sampled at (0.5, 0.5) gives 2.5
C7_BilinearValue ==
    pc = "done" =>
        \A p \in DOMAIN coords :
            /\ mapped_vals[p] = BilinearExpected(p[1], coords[p][1], coords[p][2])
            /\ (IsCornerExample(p[1]) /\ 2 * coords[p][1] = Q /\ 2 * coords[p][2] = Q)
                  => 2 * mapped_vals[p] = 5 * Q * Q

\* C7 witness: a coordinate with two different non-zero fractional parts was
\* sampled on a map whose off-diagonal neighbours differ
C7_Witness ==
    /\ pc = "done"
    /\ \E p \in DOMAIN coords :
          /\ coords[p][1] % Q # 0 /\ coords[p][2] % Q # 0
          /\ coords[p][1] % Q # coords[p][2] % Q
          /\ inputs_bc[<<p[1], 0, 1>>] # inputs_bc[<<p[1], 1, 0>>]

\* the interpolation example of the specification was sampled
C7_ExampleReached ==
    /\ pc = "done"
    /\ \E p \in DOMAIN coords :
          /\ IsCornerExample(p[1])
          /\ 2 * coords[p][1] = Q /\ 2 * coords[p][2] = Q
          /\ 2 * mapped_vals[p] = 5 * Q * Q

\* floor and ceiling of a coordinate numerator over Q
FloorOf(x) == x \div Q
CeilOf(x) == IF x % Q = 0 THEN x \div Q ELSE x \div Q + 1

\* the two-step blend of the sampler at p, of the feature values found at the
\* corners lt, rt, lb, rb: lt with rt and lb with rb by the fractional part of
\* the first axis, then the two results by the fractional part of the second
BlendOfCorners(p, lt, rt, lb, rb) ==
    LET n == p[1]
        fr == coords[p][1] % Q
        fq == coords[p][2] % Q
        v(c) == inputs_bc[<<n, c[1], c[2]>>]
        top == Q * v(lt) + (v(rt) - v(lt)) * fr
        bottom == Q * v(lb) + (v(rb) - v(lb)) * fr
    IN  Q * top + (bottom - top) * fq

\* C22 as stated: the corners are lt = (floor r, floor q), rb = (ceil r, ceil q),
\* lb = (ceil r, floor q), rt = (floor r, ceil q); v_lt is blended with v_rt and
\* v_lb with v_rb by the fractional part of the first axis, then the two results
\* by the fractional part of the second axis
C22_CornersAsStated ==
    pc = "done" =>
        \A p \in DOMAIN coords :
            LET r == coords[p][1]
                q == coords[p][2]
            IN  /\ corners.lt[p] = <<FloorOf(r), FloorOf(q)>>
                /\ corners.rb[p] = <<CeilOf(r), CeilOf(q)>>
                /\ corners.lb[p] = <<CeilOf(r), FloorOf(q)>>
                /\ corners.rt[p] = <<FloorOf(r), CeilOf(q)>>
                /\ mapped_vals[p] = BlendOfCorners(p, corners.lt[p], corners.rt[p],
                                                   corners.lb[p], corners.rb[p])

\* C22 (amended): the corners are lt = (floor r, floor q), rb = (ceil r, ceil q),
\* lb = (floor r, ceil q), rt = (ceil r, floor q); v_lt is blended with v_rt and
\* v_lb with v_rb by the fractional part of the first axis, then the two results
\* by the fractional part of the second axis
C22_CornerSelection ==
    pc = "done" =>
        \A p \in DOMAIN coords :
            LET r == coords[p][1]
                q == coords[p][2]
            IN  /\ corners.lt[p] = <<FloorOf(r), FloorOf(q)>>
                /\ corners.rb[p] = <<CeilOf(r), CeilOf(q)>>
                /\ corners.lb[p] = <<FloorOf(r), CeilOf(q)>>
                /\ corners.rt[p] = <<CeilOf(r), FloorOf(q)>>
                /\ mapped_vals[p] =
                      BlendOfCorners(p, <<FloorOf(r), FloorOf(q)>>, <<CeilOf(r), FloorOf(q)>>,
                                     <<FloorOf(r), CeilOf(q)>>, <<CeilOf(r), CeilOf(q)>>)

\* C22 witness: a coordinate with a fractional row and an integral column was
\* sampled where the feature values at rows floor r and ceil r differ, so the
\* first blend moved the value
C22_Witness ==
    /\ pc = "done"
    /\ \E p \in DOMAIN coords :
          /\ coords[p][1] % Q # 0 /\ coords[p][2] % Q = 0
          /\ corners.rt[p] # corners.lb[p]
          /\ inputs_bc[<<p[1], corners.rt[p][1], corners.rt[p][2]>>]
                # inputs_bc[<<p[1], corners.lt[p][1], corners.lt[p][2]>>]
          /\ mapped_vals[p] # Q * Q * inputs_bc[<<p[1], corners.lt[p][1], corners.lt[p][2]>>]

\* a coordinate with each component clipped to its own axis range
ClipPerAxis(c) ==
    << IF c[1] < 0 THEN 0 ELSE IF c[1] > (dims.H - 1) * Q THEN (dims.H - 1) * Q ELSE c[1],
       IF c[2] < 0 THEN 0 ELSE IF c[2] > (dims.W - 1) * Q THEN (dims.W - 1) * Q ELSE c[2] >>

\* C23: every coordinate handed to the sampler is a (grid + offset) coordinate
\* with row' = min(max(row, 0), H-1) and col' = min(max(col, 0), W-1), each
\* (grid + offset) coordinate is handed on clipped that way, and a component
\* inside its own axis range is unchanged, whatever the other axis' bound is
C23_PerAxisClipping ==
    pc = "done" =>
        /\ \A p \in DOMAIN coords :
              \E b \in 0..(dims.B - 1) :
                 LET raw == RawCoord(b, <<p[2], p[3], p[4]>>)
                 IN  /\ coords[p] = ClipPerAxis(raw)
                     /\ (0 <= raw[1] /\ raw[1] <= (dims.H - 1) * Q) => coords[p][1] = raw[1]
                     /\ (0 <= raw[2] /\ raw[2] <= (dims.W - 1) * Q) => coords[p][2] = raw[2]
        /\ \A b \in 0..(dims.B - 1), q \in Positions :
              \E n \in 0..(dims.B * dims.C - 1) :
                 coords[<<n, q[1], q[2], q[3]>>] = ClipPerAxis(RawCoord(b, q))

\* C23 witness: on a map with H # W a row inside [0, H-1] but above W-1 was kept
\* while the column of the same coordinate was clipped to W-1
C23_Witness ==
    /\ pc = "done"
    /\ dims.H # dims.W
    /\ \E b \in 0..(dims.B - 1), q \in Positions :
          LET raw == RawCoord(b, q)
          IN  /\ raw[1] > (dims.W - 1) * Q /\ raw[1] <= (dims.H - 1) * Q
              /\ raw[2] > (dims.W - 1) * Q
              /\ coords[<<b, q[1], q[2], q[3]>>] = <<raw[1], (dims.W - 1) * Q>>

\* floor((k - 1) / 2)
FloorHalfOfPred(k) == CHOOSE c \in 0..k : 2 * c <= k - 1 /\ k - 1 < 2 * c + 2

\* C24: for every kernel footprint (kh, kw), equal or not, odd or even, and every
\* map size (H, W) the base grid has H rows and W columns and its entry at (i, j)
\* is (i - floor((kh-1)/2), j - floor((kw-1)/2))
C24_BaseGridCentring ==
    pc # "start" =>
        /\ DOMAIN base_grid = (0..(dims.H - 1)) \X (0..(dims.W - 1))
        /\ \A p \in DOMAIN base_grid :
              base_grid[p] = << p[1] - FloorHalfOfPred(dims.kh),
                                p[2] - FloorHalfOfPred(dims.kw) >>

\* C24 witness: the grid was built for a footprint with an even height and an
\* odd, larger width on a map with H # W
C24_Witness ==
    /\ pc = "grid"
    /\ dims.kh = 2 /\ dims.kw = 3
    /\ dims.H # dims.W
    /\ base_grid[<<0, 0>>] = <<0, 0 - 1>>

\* C25: _to_bc_h_w puts element [b, i, j, c] of the [B, H, W, C] input at
\* [b*C + c, i, j]; _to_b_h_w_n_c puts element [b*C + c, i, j, k] of the
\* [B*C, H, W, taps] sampled tensor at [b, i, j, k, c] of a [B, H, W, taps, C]
\* tensor; so wherever the sampler hands the value at (i, j) on to tap k the
\* result is out[b, i, j, k, c] = in[b, i, j, c]
C25_LayoutRoundTrip ==
    pc = "done" =>
        /\ DOMAIN inputs_bc = (0..(dims.B * dims.C - 1)) \X (0..(dims.H - 1)) \X (0..(dims.W - 1))
        /\ DOMAIN input_deform =
              (0..(dims.B - 1)) \X (0..(dims.H - 1)) \X (0..(dims.W - 1))
                 \X (0..(Taps - 1)) \X (0..(dims.C - 1))
        /\ \A b \in 0..(dims.B - 1), c \in 0..(dims.C - 1), q \in Positions :
              /\ inputs_bc[<<b * dims.C + c, q[1], q[2]>>] = inputs[<<b, q[1], q[2], c>>]
              /\ input_deform[<<b, q[1], q[2], q[3], c>>] =
                    mapped_vals[<<b * dims.C + c, q[1], q[2], q[3]>>]
              /\ coords[<<b * dims.C + c, q[1], q[2], q[3]>>] = <<q[1] * Q, q[2] * Q>>
                    => input_deform[<<b, q[1], q[2], q[3], c>>]
                          = Q * Q * inputs[<<b, q[1], q[2], c>>]

\* C25 witness: a batch of several elements with several channels and several
\* taps went through both layout changes, every tap sampling its own position,
\* and the value of batch 1, channel 0 differs from that of batch 0, channel 1
C25_Witness ==
    /\ pc = "done"
    /\ dims.B > 1 /\ dims.C > 1 /\ Taps > 1
    /\ \A p \in DOMAIN coords : coords[p] = <<p[2] * Q, p[3] * Q>>
    /\ inputs[<<1, 0, 0, 0>>] # inputs[<<0, 0, 0, 1>>]
    /\ input_deform[<<1, 0, 0, 1, 0>>] = Q * Q * inputs[<<1, 0, 0, 0>>]

----------------------------------------------------------------------------
(* Properties of the layer constructors (checked under Spec) *)

IsPrefix(a, b) == Len(a) <= Len(b) /\ SubSeq(b, 1, Len(a)) = a

NoDuplicates(a) == \A i \in 1..Len(a), j \in 1..Len(a) : a[i] = a[j] => i = j

\* the items of xs that are not items of ys, in xs's order
Without(xs, ys) == SelectSeq(xs, LAMBDA x : \A i \in 1..Len(ys) : ys[i] # x)

\* the step is a constructor call `op` that returned a new layer
Returned(op) ==
    /\ last'.op = op
    /\ last'.err = ""
    /\ Len(layers') = Len(layers) + 1

\* C5: for duplicate-free A.all_params and P.all_params the deformable layer's
\* all_params is A.all_params, then the items of P.all_params not in A.all_params
\* in P's order, then the new weight and bias, with no duplicate; the same holds
\* for all_layers, which ends with the layer's own outputs
C5_ParamsDeduped ==
    [][ Returned("DeformableConv2dLayer") =>
          LET A == layers[last'.layer]
              P == layers[last'.aux]
              D == layers'[Len(layers')]
              Ap == lists[A.all_params]
              Pp == lists[P.all_params]
              Al == lists[A.all_layers]
              Pl == lists[P.all_layers]
          IN  /\ (NoDuplicates(Ap) /\ NoDuplicates(Pp)) =>
                    /\ lists'[D.all_params] = Ap \o Without(Pp, Ap) \o <<nvar + 1, nvar + 2>>
                    /\ NoDuplicates(lists'[D.all_params])
              /\ (NoDuplicates(Al) /\ NoDuplicates(Pl)) =>
                    /\ lists'[D.all_layers] = Al \o Without(Pl, Al) \o <<D.outputs>>
                    /\ NoDuplicates(lists'[D.all_layers])
      ]_vars

\* C5 witness: the example A = [w1, w2], P = [w1, w2, w3] gave [w1, w2, w3, Wd, bd]
C5_Witness ==
    /\ last.op = "DeformableConv2dLayer" /\ last.err = ""
    /\ lists[layers[last.layer].all_params] = <<1, 2>>
    /\ lists[layers[last.aux].all_params] = <<1, 2, 3>>
    /\ lists[layers[Len(layers)].all_params] = <<1, 2, 3, 4, 5>>

\* C6: construction fails whenever the offset output's trailing dimension differs
\* from 2*kh*kw, the shape check passes whenever it is equal, and nothing is
\* sampled with a mis-shaped offset
C6_OffsetShapeChecked ==
    last.op = "DeformableConv2dLayer" =>
        LET want == 2 * last.kshape[1] * last.kshape[2]
        IN  /\ last.offset_chan # want => last.err # ""
            /\ last.offset_chan = want => last.err # "AssertionError"
            /\ last.sampled => last.offset_chan = want

\* C6 witness: a construction failed its shape check
C6_Witness ==
    /\ last.op = "DeformableConv2dLayer"
    /\ last.err = "AssertionError"
    /\ last.offset_chan # 2 * last.kshape[1] * last.kshape[2]
    /\ ~last.sampled

\* C8: with b_init=None only W is created and appended and no bias is added;
\* with b_init given, W and b are appended in that order
C8_BiasOptional ==
    (last.op = "DeformableConv2dLayer" /\ last.err = "") =>
        LET ps == lists[layers[Len(layers)].all_params]
            n == Len(ps)
        IN  IF last.b_init
            THEN /\ Len(last.created) = 2
                 /\ last.bias_added
                 /\ SubSeq(ps, n - 1, n) = last.created
            ELSE /\ Len(last.created) = 1
                 /\ ~last.bias_added
                 /\ SubSeq(ps, n, n) = last.created

\* C9: a new layer's all_params has the upstream layer's all_params as a prefix,
\* its all_layers has the upstream's all_layers as a prefix and ends with the new
\* layer's own outputs; every item a second input layer (offset layer, decoder
\* input) had accumulated is kept as well
C9_MonotoneGrowth ==
    [][ (Len(layers') = Len(layers) + 1 /\ last'.layer # 0) =>
          LET U == layers[last'.layer]
              N == layers'[Len(layers')]
              Np == lists'[N.all_params]
              Nl == lists'[N.all_layers]
          IN  /\ IsPrefix(lists[U.all_params], Np)
              /\ IsPrefix(lists[U.all_layers], Nl)
              /\ Nl # <<>> /\ Nl[Len(Nl)] = N.outputs
              /\ last'.aux # 0 =>
                    /\ Range(lists[layers[last'.aux].all_params]) \subseteq Range(Np)
                    /\ Range(lists[layers[last'.aux].all_layers]) \subseteq Range(Nl)
      ]_vars

\* C9 witness: a Seq2Seq was built on an encoder input that had parameters and on
\* a different decoder input
C9_Witness ==
    /\ last.op = "Seq2Seq" /\ last.err = ""
    /\ last.layer # last.aux
    /\ lists[layers[last.layer].all_params] # <<>>
    /\ lists[layers[last.aux].all_params] # <<>>

\* C10: a constructor call leaves every existing layer's all_params, all_layers
\* and all_drop exactly as they were
C10_UpstreamNotMutated ==
    [][ \A i \in 1..Len(layers) :
          /\ Len(layers') >= i
          /\ layers'[i] = layers[i]
          /\ lists'[layers[i].all_params] = lists[layers[i].all_params]
          /\ lists'[layers[i].all_layers] = lists[layers[i].all_layers]
          /\ dicts'[layers[i].all_drop] = dicts[layers[i].all_drop]
      ]_vars

\* C10 witness: a deformable layer was built on a layer A with an offset layer
\* that was itself built on A
C10_Witness ==
    /\ last.op = "DeformableConv2dLayer" /\ last.err = ""
    /\ last.layer # last.aux
    /\ IsPrefix(lists[layers[last.layer].all_layers], lists[layers[last.aux].all_layers])
    /\ lists[layers[last.layer].all_params] # <<>>

\* C11: a DeformableConv2dLayer construction that fails its offset-channel check
\* creates no variable, samples nothing, assigns none of outputs, all_layers,
\* all_params, all_drop and adds no layer; one that returns has created W and b
\* and assigned all four
C11_NoPartialConstruction ==
    [][ last'.op = "DeformableConv2dLayer" =>
          /\ last'.err = "AssertionError" =>
                /\ nvar' = nvar /\ last'.created = <<>>
                /\ last'.assigned = {} /\ ~last'.sampled
                /\ layers' = layers /\ lists' = lists /\ dicts' = dicts
          /\ last'.err = "" =>
                /\ nvar' = nvar + 2 /\ Len(last'.created) = 2
                /\ last'.assigned = LayerAttrs
                /\ Len(layers') = Len(layers) + 1
      ]_vars

\* C11 witness: the offset-channel check failed in a graph that already holds
\* variables and layers
C11_Witness ==
    /\ last.op = "DeformableConv2dLayer"
    /\ last.err = "AssertionError"
    /\ nvar > 0 /\ Len(layers) > 1

RECURSIVE ParseVersion(_, _, _)
\* the numeric fields of a dotted version string, e.g. "1.10.0" -> <<1, 10, 0>>
ParseVersion(v, cur, acc) ==
    IF v = <<>> THEN Append(acc, cur)
    ELSE IF Head(v) = 46 THEN ParseVersion(Tail(v), 0, Append(acc, cur))
    ELSE ParseVersion(Tail(v), 10 * cur + (Head(v) - 48), acc)

\* version v is numerically lower than major.minor
NumericallyLower(v, major, minor) ==
    LET f == ParseVersion(v, 0, <<>>)
    IN  f[1] < major \/ (f[1] = major /\ f[2] < minor)

\* C14: DeformableConv2dLayer is rejected with the version error exactly when the
\* installed TensorFlow version is numerically lower than 1.4
C14_VersionRequirement ==
    last.op = "DeformableConv2dLayer" =>
        (last.err = "Exception" <=> NumericallyLower(tf_version, 1, 4))

----------------------------------------------------------------------------
(* Properties of single constructor calls (checked under SpecBuild) *)

\* the step is a call of one of the two resampling constructors
ResampleCalled ==
    last'.op \in {"UpSampling2dLayer", "DownSampling2dLayer"}

\* C12: a resampling constructor raises for every input whose rank is neither 3
\* nor 4, with no output tensor created, no attribute assigned and no layer
\* added; for rank 3 and 4 it does not raise, and with is_scale the target size
\* is (int(size[0]*height), int(size[1]*width)), height and width being axes
\* (0, 1) of a rank-3 and axes (1, 2) of a rank-4 input
C12_ResampleRank ==
    [][ ResampleCalled =>
          LET shape == layers[last'.layer].shape
              size == last'.args[1]
              is_scale == last'.args[2]
              rank == Len(shape)
          IN  /\ rank \notin {3, 4} =>
                    /\ last'.err = "Exception"
                    /\ ntensor' = ntensor /\ last'.assigned = {}
                    /\ layers' = layers /\ lists' = lists
              /\ rank \in {3, 4} => last'.err = ""
              /\ (rank = 3 /\ is_scale) =>
                    last'.result = << (size[1] * shape[1]) \div Q, (size[2] * shape[2]) \div Q >>
              /\ (rank = 4 /\ is_scale) =>
                    last'.result = << (size[1] * shape[2]) \div Q, (size[2] * shape[3]) \div Q >>
      ]_vars

\* C12 witness: a rank-3 input whose axes 0 and 1 differ from its axes 1 and 2
\* was resampled with is_scale and a fractional factor
C12_Witness ==
    /\ last.op = "DownSampling2dLayer" /\ last.err = ""
    /\ Len(layers[1].shape) = 3
    /\ layers[1].shape[1] # layers[1].shape[2] /\ layers[1].shape[2] # layers[1].shape[3]
    /\ last.args[2]
    /\ (last.args[1][1] * layers[1].shape[1]) % Q # 0

\* a construction was refused for its rank
C12_RankRefused ==
    /\ last.op = "UpSampling2dLayer" /\ last.err = "Exception"
    /\ Len(layers[1].shape) = 5

\* C15: Conv1dLayer with act=None is constructed, and applies the identity to
\* the convolution (plus bias) result as with act=tf.identity
C15_Conv1dActNone ==
    (last.op = "Conv1dLayer" /\ last.args = <<"None">>) =>
        /\ last.err = ""
        /\ last.result = <<"identity">>

\* the input of the call has the rank the layer requires
RankFits ==
    Len(layers[last.layer].shape) = (IF last.op = "ConvLSTMLayer" THEN 5 ELSE 3)

\* C16: RNNLayer and ConvLSTMLayer on an input of the right rank: with
\* initial_state None the layer's initial_state is the cell's zero state; with a
\* state passed in, construction succeeds, layer.initial_state is that state and
\* it is the state fed to the cell at time step 0
C16_InitialState ==
    (last.op \in {"RNNLayer", "ConvLSTMLayer"} /\ RankFits) =>
        /\ last.err = ""
        /\ last.result.initial_state =
              (IF last.args[1] = "None" THEN "zero_state" ELSE last.args[1])
        /\ last.result.state0 = last.result.initial_state

\* the cells a DynamicRNNLayer or BiRNNLayer call created
CreatedCells ==
    IF last.op = "DynamicRNNLayer" THEN Range(last.result.cell)
    ELSE Range(last.result.fw_cell) \cup Range(last.result.bw_cell)

\* C17: DynamicRNNLayer and BiRNNLayer wrap every cell with the pair's input and
\* output keep probabilities, with the float for both when dropout is a float, and
\* raise for any other non-empty dropout type
C17_DropoutProbabilities ==
    ( /\ last.op \in {"DynamicRNNLayer", "BiRNNLayer"}
      /\ Len(layers[last.layer].shape) = 3
      /\ ~last.return_last ) =>
        LET dropout == last.args[1]
        IN  /\ dropout.type \in {"tuple", "list"} =>
                  /\ last.err = ""
                  /\ \A c \in CreatedCells :
                        /\ c.input_keep_prob = dropout.val[1]
                        /\ c.output_keep_prob = dropout.val[2]
            /\ dropout.type = "float" =>
                  /\ last.err = ""
                  /\ \A c \in CreatedCells :
                        /\ c.input_keep_prob = dropout.val[1]
                        /\ c.output_keep_prob = dropout.val[1]
            /\ dropout.type \in {"int", "str"} => last.err = "Exception"

\* C18: BiDynamicRNNLayer on a rank-3 input creates n_layer forward and n_layer
\* backward cells without raising, for every n_layer >= 1 and dropout None, a
\* float, or a 2-element tuple or list
C18_BiDynamicStacking ==
    ( /\ last.op = "BiDynamicRNNLayer"
      /\ Len(layers[last.layer].shape) = 3
      /\ ~last.return_last
      /\ last.args[1].type \in {"None", "float", "tuple", "list"} ) =>
        /\ last.err = ""
        /\ Len(last.result.fw_cell) = last.args[2]
        /\ Len(last.result.bw_cell) = last.args[2]

\* C19: in a constructed Seq2Seq the decoder's initial state is the encoder's
\* final state when initial_state_decode is None and the given state otherwise;
\* the encoder is built before the decoder; the layer's four state attributes are
\* those of the encoder and decoder sub-layers
C19_StateHandOff ==
    (last.op = "Seq2Seq" /\ last.err = "") =>
        LET res == last.result
            enc == res.network_encode
            dec == res.network_decode
        IN  /\ dec.initial_state =
                  (IF last.args[2] = "None" THEN enc.final_state ELSE <<last.args[2], 0>>)
            /\ enc.final_state[1] = "last_states"
            /\ enc.final_state[2] < dec.final_state[2]
            /\ res.initial_state_encode = enc.initial_state
            /\ res.final_state_encode = enc.final_state
            /\ res.initial_state_decode = dec.initial_state
            /\ res.final_state_decode = dec.final_state

\* C19 witness: a Seq2Seq was built on two different inputs with no
\* initial_state_decode and a given initial_state_encode
C19_Witness ==
    /\ last.op = "Seq2Seq" /\ last.err = ""
    /\ last.layer # last.aux
    /\ last.args[1] # "None" /\ last.args[2] = "None"
    /\ last.result.initial_state_decode = last.result.final_state_encode

\* a Seq2Seq was built with a given initial_state_decode
C19_GivenDecodeState ==
    /\ last.op = "Seq2Seq" /\ last.err = ""
    /\ last.args[2] # "None"
    /\ last.result.initial_state_decode = <<last.args[2], 0>>

\* the last call was a bidirectional constructor
BiCalled == last.op \in {"BiRNNLayer", "BiDynamicRNNLayer"}

\* return_last=False: the output's last extent is 2 * n_hidden, with two axes
\* when return_seq_2d and three otherwise
BiOutputShapeOk ==
    (BiCalled /\ ~last.return_last /\ last.err = "") =>
        LET shape == layers[Len(layers)].shape
            in_shape == layers[last.layer].shape
            return_seq_2d == last.args[3]
            n_hidden == last.args[4]
        IN  /\ shape[Len(shape)] = 2 * n_hidden
            /\ return_seq_2d => shape = <<in_shape[1] * in_shape[2], 2 * n_hidden>>
            /\ ~return_seq_2d => shape = <<in_shape[1], in_shape[2], 2 * n_hidden>>

C26_TwoDimensionalOutput ==
    /\ last.op = "BiRNNLayer" /\ last.err = "" /\ ~last.return_last
    /\ last.args[3] /\ last.args[4] = 3
    /\ Len(layers[Len(layers)].shape) = 2
    /\ layers[Len(layers)].shape[2] = 6

----------------------------------------------------------------------------
(* Properties of advanced_indexing_op (checked under SpecIndex) *)

\* C20: for an input of shape [batch, max_length, n_features], every row b of
\* the result of advanced_indexing_op whose sequence length L_b is in
\* 1..max_length equals input[b, L_b - 1, :]
C20_LastValidStep ==
    (relevant # Empty /\ relevant.err = "") =>
        \A b \in DOMAIN index :
            index[b] \in 1..seq_shape[2] =>
                \A f \in 0..(seq_shape[3] - 1) :
                    relevant.rows[b][f] = seq_input[<<b, index[b] - 1, f>>]

\* C20 witness: a batch of several rows of different lengths, all elements
\* different, was indexed
C20_Witness ==
    /\ relevant # Empty /\ relevant.err = ""
    /\ seq_shape[1] > 1 /\ seq_shape[2] > 1 /\ seq_shape[3] > 1
    /\ \A b \in DOMAIN index : index[b] \in 1..seq_shape[2]
    /\ index[0] = seq_shape[2] /\ index[1] = 1
    /\ seq_input[<<0, 0, 0>>] # seq_input[<<1, 0, 0>>]
    /\ relevant.rows[1][0] = seq_input[<<1, 0, 0>>]

----------------------------------------------------------------------------
(* Properties of retrieve_seq_length_op (checked under SpecLength) *)

\* step t (0-based) of row b is an all-zero feature vector
ZeroStep(b, t) == \A f \in 0..(data_shape[3] - 1) : data[<<b, t, f>>] = 0

\* C21: for every row whose steps after position L are all-zero feature vectors
\* and whose step L (1-based) has a non-zero feature, retrieve_seq_length_op
\* returns L for that row
C21_SeqLength ==
    length # Empty =>
        \A b \in 0..(data_shape[1] - 1), L \in 1..data_shape[2] :
            (/\ ~ZeroStep(b, L - 1)
             /\ \A t \in L..(data_shape[2] - 1) : ZeroStep(b, t))
            => length[b] = L

====
